---- MODULE Spec2Model ----
(***************************************************************************)
(* Motif counting in hypergraphs (src/src/hypergraph_motifs.py).           *)
(*                                                                         *)
(* Vertices are small positive integers; for them the order the code uses  *)
(* (sorted by str(x)) is the numeric order.  A Hypergraph value is a       *)
(* record [edges, vertices]; a projection graph is a function from vertex  *)
(* to neighbour set; a count mapping is a function from canonical form to  *)
(* count.  The generator esu_enumerate_connected_subgraphs is a stack of   *)
(* rec frames plus the position of the outer loop; the vertex it yields    *)
(* is handed to the consumer's loop body through the variable yielded.     *)
(***************************************************************************)
EXTENDS Integers, Sequences, FiniteSets, TLC

\* ---------------------------------------------------------------- bounds
MaxV == 4          \* vertex ids of the hypergraphs built edge by edge
MaxEdges == 2      \* add_edge calls that store an edge
MaxGV == 4         \* vertices of the graphs given to the enumerator alone
MaxK == 5          \* largest order k tried (3 and 4 are the valid ones)
MaxCanonEdges == 2 \* hyperedges of the hypergraphs given to the oracle alone

Vertices == 1..MaxV

\* ------------------------------------------------------- python helpers
\* sorted(S) for a set of integers: the ascending tuple
RECURSIVE SortedSeq(_)
SortedSeq(S) ==
    IF S = {} THEN << >>
    ELSE LET m == CHOOSE x \in S : \A y \in S : x <= y
         IN  << m >> \o SortedSeq(S \ {m})

\* a < b for two tuples of integers (python's tuple comparison)
RECURSIVE TupleLess(_, _)
TupleLess(a, b) ==
    IF a = << >> THEN b # << >>
    ELSE IF b = << >> THEN FALSE
    ELSE IF Head(a) # Head(b) THEN Head(a) < Head(b)
    ELSE TupleLess(Tail(a), Tail(b))

\* a < b for two tuples of tuples of integers
RECURSIVE TupleTupleLess(_, _)
TupleTupleLess(a, b) ==
    IF a = << >> THEN b # << >>
    ELSE IF b = << >> THEN FALSE
    ELSE IF Head(a) # Head(b) THEN TupleLess(Head(a), Head(b))
    ELSE TupleTupleLess(Tail(a), Tail(b))

\* insert tuple t into the ascending list s
RECURSIVE InsertSorted(_, _)
InsertSorted(t, s) ==
    IF s = << >> THEN << t >>
    ELSE IF TupleLess(Head(s), t) THEN << Head(s) >> \o InsertSorted(t, Tail(s))
    ELSE << t >> \o s

\* sorted(list of tuples), duplicates kept
RECURSIVE SortedTuples(_)
SortedTuples(s) ==
    IF s = << >> THEN << >>
    ELSE InsertSorted(Head(s), SortedTuples(Tail(s)))

RECURSIVE SelectIdx(_, _, _)
\* the positions i >= from of s whose entry has n elements, ascending
SelectIdx(s, n, from) ==
    IF from > Len(s) THEN << >>
    ELSE IF Cardinality(s[from]) = n
         THEN << from >> \o SelectIdx(s, n, from + 1)
         ELSE SelectIdx(s, n, from + 1)

\* ------------------------------------------------------------ Hypergraph
EmptyHypergraph == [edges |-> << >>, vertices |-> {}]

\* add_edge without the test for an empty edge
add_edgeKeepEmpty(Hg, e) ==
    [edges |-> Append(Hg.edges, e), vertices |-> Hg.vertices \cup e]

\* Hypergraph.add_edge: an empty edge is ignored, any other is appended
add_edge(Hg, e) ==
    IF Cardinality(e) = 0 THEN Hg
    ELSE [edges |-> Append(Hg.edges, e), vertices |-> Hg.vertices \cup e]

\* Hypergraph.__init__(edges): add_edge for every entry, in order
RECURSIVE AddAll(_, _)
AddAll(Hg, es) ==
    IF es = << >> THEN Hg ELSE AddAll(add_edge(Hg, Head(es)), Tail(es))

Hypergraph(es) == AddAll(EmptyHypergraph, es)

\* the list of the non-empty intersections e & Vset, in order
RECURSIVE Trimmed(_, _)
Trimmed(es, Vset) ==
    IF es = << >> THEN << >>
    ELSE IF Head(es) \cap Vset # {}
         THEN << Head(es) \cap Vset >> \o Trimmed(Tail(es), Vset)
         ELSE Trimmed(Tail(es), Vset)

induced_subhypergraph(Hg, Vset) == Hypergraph(Trimmed(Hg.edges, Vset))

\* vertex -> set of the vertices sharing a hyperedge with it
projection_2_section(Hg) ==
    [v \in Hg.vertices |->
        {u \in Hg.vertices :
            u # v /\ \E i \in 1..Len(Hg.edges) : {u, v} \subseteq Hg.edges[i]}]

\* _example_hypergraph(): a..e are 1..5
ExampleEdges == << {1, 2, 3}, {2, 3, 4}, {3, 4, 5}, {1, 4} >>
ExampleHypergraph == Hypergraph(ExampleEdges)

\* ------------------------------------------------- connectivity check
\* the vertices the breadth-first search has visited when its queue empties
RECURSIVE Bfs(_, _)
Bfs(Hg, visited) ==
    LET new == UNION {Hg.edges[i] : i \in {j \in 1..Len(Hg.edges) :
                                             Hg.edges[j] \cap visited # {}}}
    IN  IF new \subseteq visited THEN visited ELSE Bfs(Hg, visited \cup new)

\* IsConnectedFrom with the search stopped after the hyperedges of start
IsConnectedOneRound(Hg, start) ==
    {start} \cup UNION {Hg.edges[i] : i \in {j \in 1..Len(Hg.edges) :
                                                start \in Hg.edges[j]}}
        = Hg.vertices

\* is_connected_hypergraph with start as the vertex next(iter(H.vertices)) gives
IsConnectedFrom(Hg, start) == Bfs(Hg, {start}) = Hg.vertices

\* the starts the iteration order of a set may give (0: there is no vertex)
BfsStarts(Hg) == IF Hg.vertices = {} THEN {0} ELSE Hg.vertices

is_connected_hypergraph(Hg, start) ==
    IF Hg.vertices = {} THEN TRUE ELSE IsConnectedFrom(Hg, start)

\* ------------------------------------------------------- canonical form
\* Vlist.index(x): 0-based position of x in the sorted vertex list
VIndex(V, x) == Cardinality({y \in V : y < x})

\* the permutations of range(n)
Perms(n) == {p \in [0..(n-1) -> 0..(n-1)] : \A i, j \in 0..(n-1) : p[i] = p[j] => i = j}

\* edges = [tuple(sorted(map(Vlist.index, e))) for e in H.edges]
IndexEdges(Hg) ==
    [i \in 1..Len(Hg.edges) |->
        SortedSeq({VIndex(Hg.vertices, x) : x \in Hg.edges[i]})]

\* MappedEdgesSorted with the list of relabeled edges left in H.edges order
MappedEdgesUnsorted(edges, perm) ==
    [i \in 1..Len(edges) |->
        SortedSeq({perm[edges[i][j]] : j \in 1..Len(edges[i])})]

\* mapped_edges_sorted for one permutation
MappedEdgesSorted(edges, perm) ==
    SortedTuples([i \in 1..Len(edges) |->
        SortedSeq({perm[edges[i][j]] : j \in 1..Len(edges[i])})])

\* json.dumps of a tuple of tuples of integers is one-to-one, so the canonical
\* form is kept as the tuple itself.  The string "()" returned for no vertices
\* differs from every json.dumps(best), where best holds at least one edge: it
\* is kept as the empty tuple.
EmptyCanon == << >>

canonical_form_hypergraph(Hg) ==
    IF Cardinality(Hg.vertices) = 0 THEN EmptyCanon
    ELSE LET edges == IndexEdges(Hg)
             cands == {MappedEdgesSorted(edges, p) : p \in Perms(Cardinality(Hg.vertices))}
         IN  CHOOSE b \in cands : \A c \in cands : ~TupleTupleLess(c, b)

\* M[Cm] += 1 on a defaultdict(int)
Incr(Mp, c) ==
    IF c \in DOMAIN Mp THEN [Mp EXCEPT ![c] = @ + 1] ELSE Mp @@ (c :> 1)

EmptyMap == << >>

RECURSIVE SumOver(_, _)
SumOver(Mp, D) ==
    IF D = {} THEN 0
    ELSE LET c == CHOOSE x \in D : TRUE IN Mp[c] + SumOver(Mp, D \ {c})

\* sum(M.values())
SumValues(Mp) == SumOver(Mp, DOMAIN Mp)

\* ----------------------------------------------------------------- state
VARIABLES
    H,        \* the hypergraph under analysis
    k,        \* the motif order of the running call
    pc,       \* position of the driver / of the running call
    G,        \* the graph the enumerator runs on
    vi,       \* position of the enumerator's outer loop in the sorted vertices
    stack,    \* the active rec frames, innermost last
    yielded,  \* << S >>: the generator has just yielded S; << >>: it has not
    emitted,  \* list(esu_enumerate_connected_subgraphs(G, k)) as collected so far
    M,        \* the count mapping of the running call
    visited,  \* the visited vertex sets of the running efficient call
    seen,     \* baseline_count's counter of enumerated sets
    ei,       \* position of the running loop over hyperedges
    ej,       \* position of the inner loop of the order-4 union phase
    baseRes,  \* outcome of baseline_count: [status, value]
    effRes,   \* outcome of efficient_count_order3/4: [status, value]
    H2,       \* second hypergraph given to the canonical labeling oracle
    sigma,    \* a relabeling of H's vertices
    canon     \* the canonical forms computed by the oracle

vars == << H, k, pc, G, vi, stack, yielded, emitted, M, visited, seen, ei, ej,
           baseRes, effRes, H2, sigma, canon >>

genVars == << vi, stack, yielded >>
countVars == << M, visited, seen, ei, ej, baseRes, effRes >>
canonVars == << H2, sigma, canon >>

\* ------------------------------------------------------------ enumerator
\* vertices = sorted(G.keys(), key=str)
SortedVertices(Gr) == SortedSeq(DOMAIN Gr)

\* index = {v: i for i, v in enumerate(vertices)}
Index(Gr) == [v \in DOMAIN Gr |-> Cardinality({u \in DOMAIN Gr : u < v})]

Range(s) == {s[i] : i \in 1..Len(s)}

\* ext of the outer loop: the neighbours of v after v in the order
StartExt(Gr, v) == {nb \in Gr[v] : Index(Gr)[nb] > Index(Gr)[v]}

\* NewExt with the rest of ext_list forgotten
NewExtDropRest(Gr, rest, new_sub, w, start) ==
    {nb \in Gr[w] : nb \notin Range(new_sub) /\ Index(Gr)[nb] > Index(Gr)[start]}

\* new_ext of rec: the unprocessed rest of ext_list, plus the neighbours of w
\* after start that are not in new_sub
NewExt(Gr, rest, new_sub, w, start) ==
    rest \cup {nb \in Gr[w] : nb \notin Range(new_sub)
                              /\ Index(Gr)[nb] > Index(Gr)[start]}

\* the pc values at which the generator is being iterated
EnumPcs == {"esu", "base", "eff3_esu", "eff4_esu"}

Running == pc \in EnumPcs /\ yielded = << >>

Top == stack[Len(stack)]
Pop == SubSeq(stack, 1, Len(stack) - 1)

\* for v in vertices: ext = ...; rec([v], ext, v)
ESUStart ==
    /\ Running
    /\ stack = << >>
    /\ vi <= Len(SortedVertices(G))
    /\ LET v == SortedVertices(G)[vi]
       IN  stack' = << [subgraph |-> << v >>, ext_list |-> StartExt(G, v), start |-> v] >>
    /\ vi' = vi + 1
    /\ UNCHANGED << H, k, pc, G, yielded, emitted, countVars, canonVars >>

\* rec: len(subgraph) == k: yield frozenset(subgraph); return
RecEmit ==
    /\ Running
    /\ stack # << >>
    /\ Len(Top.subgraph) = k
    /\ yielded' = << Range(Top.subgraph) >>
    /\ stack' = Pop
    /\ UNCHANGED << H, k, pc, G, vi, emitted, countVars, canonVars >>

\* rec: w = ext_list.pop(); build new_sub and new_ext; recurse.  The order of
\* list(ext) is the iteration order of a set: any element may come last.
RecPop ==
    /\ Running
    /\ stack # << >>
    /\ Len(Top.subgraph) # k
    /\ \E w \in Top.ext_list :
          LET rest == Top.ext_list \ {w}
              new_sub == Append(Top.subgraph, w)
              new_ext == NewExt(G, rest, new_sub, w, Top.start)
          IN  stack' = Append([stack EXCEPT ![Len(stack)].ext_list = rest],
                              [subgraph |-> new_sub, ext_list |-> new_ext,
                               start |-> Top.start])
    /\ UNCHANGED << H, k, pc, G, vi, yielded, emitted, countVars, canonVars >>

\* rec: ext_list is empty, the while loop ends and rec returns
RecReturn ==
    /\ Running
    /\ stack # << >>
    /\ Len(Top.subgraph) # k
    /\ Top.ext_list = {}
    /\ stack' = Pop
    /\ UNCHANGED << H, k, pc, G, vi, yielded, emitted, countVars, canonVars >>

\* the generator has nothing more to yield
Exhausted == Running /\ stack = << >> /\ vi > Len(SortedVertices(G))

\* list(esu_enumerate_connected_subgraphs(G, k)): take the yielded set
Collect ==
    /\ pc = "esu"
    /\ yielded # << >>
    /\ emitted' = Append(emitted, yielded[1])
    /\ yielded' = << >>
    /\ UNCHANGED << H, k, pc, G, vi, stack, countVars, canonVars >>

CollectDone ==
    /\ pc = "esu"
    /\ Exhausted
    /\ pc' = "esu_done"
    /\ UNCHANGED << H, k, G, genVars, emitted, countVars, canonVars >>

\* the simple graphs on 1..n
Pairs(n) == {e \in SUBSET (1..n) : Cardinality(e) = 2}
GraphOf(n, E) == [v \in 1..n |-> {u \in 1..n : {u, v} \in E}]
SimpleGraphs == UNION {{GraphOf(n, E) : E \in SUBSET Pairs(n)} : n \in 0..MaxGV}

\* outcomes of a call
NotCalled == [status |-> "none", value |-> EmptyMap]
Raised(err) == [status |-> err, value |-> EmptyMap]
Returned(Mp) == [status |-> "returned", value |-> Mp]

InitESU ==
    /\ pc = "esu"
    /\ G \in SimpleGraphs
    /\ k \in 0..MaxK
    /\ H = EmptyHypergraph
    /\ vi = 1 /\ stack = << >> /\ yielded = << >> /\ emitted = << >>
    /\ M = EmptyMap /\ visited = {} /\ seen = 0 /\ ei = 1 /\ ej = 1
    /\ baseRes = NotCalled /\ effRes = NotCalled
    /\ H2 = EmptyHypergraph /\ sigma = << >> /\ canon = << >>

NextESU == ESUStart \/ RecEmit \/ RecPop \/ RecReturn \/ Collect \/ CollectDone

SpecESU == InitESU /\ [][NextESU]_vars

\* ------------------------------------------------ building the hypergraph
\* H.add_edge(e) on the hypergraph under construction
AddEdge ==
    /\ pc = "build"
    /\ Len(H.edges) < MaxEdges
    /\ \E e \in SUBSET Vertices : H' = add_edge(H, e)
    /\ UNCHANGED << k, pc, G, genVars, emitted, countVars, canonVars >>

\* H = _example_hypergraph()
LoadExample ==
    /\ pc = "build"
    /\ H = EmptyHypergraph
    /\ H' = ExampleHypergraph
    /\ pc' = "ready"
    /\ UNCHANGED << k, G, genVars, emitted, countVars, canonVars >>

\* ------------------------------------------------------- baseline_count
\* ValidK accepting one order more
ValidKWide == {3, 4, 5}

\* if k not in (3, 4): raise ValueError
ValidK == {3, 4}

\* baseline_count(H, kk) up to the start of its for loop
BaselineCall ==
    /\ pc \in {"build", "ready"}
    /\ \E kk \in 0..MaxK :
          /\ k' = kk
          /\ IF kk \notin ValidK
             THEN /\ baseRes' = Raised("ValueError")
                  /\ pc' = "raised"
                  /\ UNCHANGED << G, M, seen, genVars >>
             ELSE /\ G' = projection_2_section(H)
                  /\ M' = EmptyMap
                  /\ seen' = 0
                  /\ vi' = 1 /\ stack' = << >> /\ yielded' = << >>
                  /\ pc' = "base"
                  /\ UNCHANGED baseRes
    /\ UNCHANGED << H, emitted, visited, ei, ej, effRes, canonVars >>

\* the count mapping after the candidate on Vstar is examined: it is counted
\* when it is hypergraph-connected
Counted(Mp, Hg, Vstar, start) ==
    LET candidate == induced_subhypergraph(Hg, Vstar)
    IN  IF is_connected_hypergraph(candidate, start)
        THEN Incr(Mp, canonical_form_hypergraph(candidate))
        ELSE Mp

\* body of baseline_count's for loop, for the set just yielded
BaselineBody ==
    /\ pc = "base"
    /\ yielded # << >>
    /\ seen' = seen + 1
    /\ \E s \in BfsStarts(induced_subhypergraph(H, yielded[1])) :
          M' = Counted(M, H, yielded[1], s)
    /\ yielded' = << >>
    /\ UNCHANGED << H, k, pc, G, vi, stack, emitted, visited, ei, ej,
                    baseRes, effRes, canonVars >>

\* return dict(M)
BaselineReturn ==
    /\ pc = "base"
    /\ Exhausted
    /\ baseRes' = Returned(M)
    /\ pc' = "base_done"
    /\ UNCHANGED << H, k, G, genVars, emitted, M, visited, seen, ei, ej,
                    effRes, canonVars >>

\* ----------------------------------------------- efficient_count_order3/4
\* the call that follows baseline_count(H, 3): efficient_count_order3(H)
Eff3Call ==
    /\ pc = "base_done"
    /\ k = 3
    /\ M' = EmptyMap /\ visited' = {} /\ ei' = 1
    /\ pc' = "eff3_direct"
    /\ UNCHANGED << H, k, G, genVars, emitted, seen, ej, baseRes, effRes, canonVars >>

\* the call that follows baseline_count(H, 4): efficient_count_order4(H)
Eff4Call ==
    /\ pc = "base_done"
    /\ k = 4
    /\ M' = EmptyMap /\ visited' = {} /\ ei' = 1
    /\ pc' = "eff4_direct"
    /\ UNCHANGED << H, k, G, genVars, emitted, seen, ej, baseRes, effRes, canonVars >>

\* DirectM with len(e) <= n as the test
DirectMAtMost(Mp, Hg, e, n) ==
    IF Cardinality(e) <= n
    THEN Incr(Mp, canonical_form_hypergraph(induced_subhypergraph(Hg, e)))
    ELSE Mp

\* one iteration of "for e in H.edges: if len(e) == n: ..." (phase 1)
DirectM(Mp, Hg, e, n) ==
    IF Cardinality(e) = n
    THEN Incr(Mp, canonical_form_hypergraph(induced_subhypergraph(Hg, e)))
    ELSE Mp

DirectVisited(vis, e, n) == IF Cardinality(e) = n THEN vis \cup {e} ELSE vis

Eff3Direct ==
    /\ pc = "eff3_direct"
    /\ ei <= Len(H.edges)
    /\ M' = DirectM(M, H, H.edges[ei], 3)
    /\ visited' = DirectVisited(visited, H.edges[ei], 3)
    /\ ei' = ei + 1
    /\ UNCHANGED << H, k, pc, G, genVars, emitted, seen, ej, baseRes, effRes, canonVars >>

Eff4Direct ==
    /\ pc = "eff4_direct"
    /\ ei <= Len(H.edges)
    /\ M' = DirectM(M, H, H.edges[ei], 4)
    /\ visited' = DirectVisited(visited, H.edges[ei], 4)
    /\ ei' = ei + 1
    /\ UNCHANGED << H, k, pc, G, genVars, emitted, seen, ej, baseRes, effRes, canonVars >>

\* G_proj = H.projection_2_section(); the generator is created
Eff3Project ==
    /\ pc = "eff3_direct"
    /\ ei > Len(H.edges)
    /\ G' = projection_2_section(H)
    /\ vi' = 1 /\ stack' = << >> /\ yielded' = << >>
    /\ pc' = "eff3_esu"
    /\ UNCHANGED << H, k, emitted, countVars, canonVars >>

\* the count mapping and the visited set after an unvisited candidate is examined
SkipOrCount(Mp, vis, Hg, Vf, start) ==
    IF Vf \in vis THEN Mp ELSE Counted(Mp, Hg, Vf, start)

SkipOrVisit(vis, Hg, Vf, start) ==
    IF Vf \in vis THEN vis
    ELSE IF is_connected_hypergraph(induced_subhypergraph(Hg, Vf), start)
         THEN vis \cup {Vf}
         ELSE vis

\* body of the enumeration loop of efficient_count_order3
Eff3Body ==
    /\ pc = "eff3_esu"
    /\ yielded # << >>
    /\ \E s \in BfsStarts(induced_subhypergraph(H, yielded[1])) :
          /\ M' = SkipOrCount(M, visited, H, yielded[1], s)
          /\ visited' = SkipOrVisit(visited, H, yielded[1], s)
    /\ yielded' = << >>
    /\ UNCHANGED << H, k, pc, G, vi, stack, emitted, seen, ei, ej,
                    baseRes, effRes, canonVars >>

Eff3Return ==
    /\ pc = "eff3_esu"
    /\ Exhausted
    /\ effRes' = Returned(M)
    /\ pc' = "done"
    /\ UNCHANGED << H, k, G, genVars, emitted, M, visited, seen, ei, ej,
                    baseRes, canonVars >>

\* edges_no4 = [e for e in H.edges if len(e) != 4]; H_no4 = Hypergraph(edges_no4)
NotSize4(e) == Cardinality(e) # 4
H_no4(Hg) == Hypergraph(SelectSeq(Hg.edges, NotSize4))

\* size3_edges, as the positions in H_no4.edges of the size-3 hyperedges (a
\* position stands for the identity of the stored object)
size3_edges(Hg) == SelectIdx(H_no4(Hg).edges, 3, 1)

\* the size-4 loop is over: build H_no4 and size3_edges
Eff4Reduce ==
    /\ pc = "eff4_direct"
    /\ ei > Len(H.edges)
    /\ ei' = 1 /\ ej' = 1
    /\ pc' = "eff4_union"
    /\ UNCHANGED << H, k, G, genVars, emitted, M, visited, seen, baseRes,
                    effRes, canonVars >>

\* does the pair (e, other) of the union phase reach the counting code?
UnionCandidate(Hg, i, j) ==
    LET es == H_no4(Hg).edges
        e == es[size3_edges(Hg)[i]]
        other == es[j]
    IN  /\ j # size3_edges(Hg)[i]
        /\ other \cap e # {}
        /\ Cardinality(e \cup other) = 4

UnionOf(Hg, i, j) ==
    H_no4(Hg).edges[size3_edges(Hg)[i]] \cup H_no4(Hg).edges[j]

\* one iteration of the inner loop "for ei in H_no4.edges" (phase 2)
Eff4Union ==
    /\ pc = "eff4_union"
    /\ ei <= Len(size3_edges(H))
    /\ IF UnionCandidate(H, ei, ej)
       THEN \E s \in BfsStarts(induced_subhypergraph(H, UnionOf(H, ei, ej))) :
               /\ M' = SkipOrCount(M, visited, H, UnionOf(H, ei, ej), s)
               /\ visited' = SkipOrVisit(visited, H, UnionOf(H, ei, ej), s)
       ELSE UNCHANGED << M, visited >>
    /\ IF ej < Len(H_no4(H).edges)
       THEN ej' = ej + 1 /\ ei' = ei
       ELSE ej' = 1 /\ ei' = ei + 1
    /\ UNCHANGED << H, k, pc, G, genVars, emitted, seen, baseRes, effRes, canonVars >>

Eff4Project ==
    /\ pc = "eff4_union"
    /\ ei > Len(size3_edges(H))
    /\ G' = projection_2_section(H)
    /\ vi' = 1 /\ stack' = << >> /\ yielded' = << >>
    /\ pc' = "eff4_esu"
    /\ UNCHANGED << H, k, emitted, countVars, canonVars >>

\* body of the enumeration loop of efficient_count_order4
Eff4Body ==
    /\ pc = "eff4_esu"
    /\ yielded # << >>
    /\ \E s \in BfsStarts(induced_subhypergraph(H, yielded[1])) :
          /\ M' = SkipOrCount(M, visited, H, yielded[1], s)
          /\ visited' = SkipOrVisit(visited, H, yielded[1], s)
    /\ yielded' = << >>
    /\ UNCHANGED << H, k, pc, G, vi, stack, emitted, seen, ei, ej,
                    baseRes, effRes, canonVars >>

Eff4Return ==
    /\ pc = "eff4_esu"
    /\ Exhausted
    /\ effRes' = Returned(M)
    /\ pc' = "done"
    /\ UNCHANGED << H, k, G, genVars, emitted, M, visited, seen, ei, ej,
                    baseRes, canonVars >>

\* ----------------------------------------------------------- specification
Init ==
    /\ pc = "build"
    /\ H = EmptyHypergraph
    /\ k = 0
    /\ G = << >>
    /\ vi = 1 /\ stack = << >> /\ yielded = << >> /\ emitted = << >>
    /\ M = EmptyMap /\ visited = {} /\ seen = 0 /\ ei = 1 /\ ej = 1
    /\ baseRes = NotCalled /\ effRes = NotCalled
    /\ H2 = EmptyHypergraph /\ sigma = << >> /\ canon = << >>

Next ==
    \/ AddEdge \/ LoadExample
    \/ BaselineCall \/ BaselineBody \/ BaselineReturn
    \/ ESUStart \/ RecEmit \/ RecPop \/ RecReturn
    \/ Eff3Call \/ Eff3Direct \/ Eff3Project \/ Eff3Body \/ Eff3Return
    \/ Eff4Call \/ Eff4Direct \/ Eff4Reduce \/ Eff4Union \/ Eff4Project
    \/ Eff4Body \/ Eff4Return

Spec == Init /\ [][Next]_vars

\* ------------------------------------------- the oracle on its own inputs
\* the lists of at most MaxCanonEdges non-empty hyperedges over Vertices
EdgeLists == UNION {[1..n -> (SUBSET Vertices) \ {{}}] : n \in 0..MaxCanonEdges}

Injections(S, T) == {f \in [S -> T] : \A x, y \in S : f[x] = f[y] => x = y}
Bijections(S, T) == {f \in Injections(S, T) : {f[x] : x \in S} = T}

\* the hypergraph with every vertex v of Hg renamed f[v]
relabel(Hg, f) ==
    Hypergraph([i \in 1..Len(Hg.edges) |-> {f[v] : v \in Hg.edges[i]}])

InitCanon ==
    /\ pc = "canon"
    /\ H \in {Hypergraph(es) : es \in EdgeLists}
    /\ k = 0
    /\ G = << >>
    /\ vi = 1 /\ stack = << >> /\ yielded = << >> /\ emitted = << >>
    /\ M = EmptyMap /\ visited = {} /\ seen = 0 /\ ei = 1 /\ ej = 1
    /\ baseRes = NotCalled /\ effRes = NotCalled
    /\ H2 = EmptyHypergraph /\ sigma = << >> /\ canon = << >>

\* the second hypergraph is H relabeled by a one-to-one sigma
CanonRelabel ==
    /\ pc = "canon"
    /\ \E f \in Injections(H.vertices, Vertices) :
          sigma' = f /\ H2' = relabel(H, f)
    /\ pc' = "relabelled"
    /\ UNCHANGED << H, k, G, genVars, emitted, countVars, canon >>

\* the second hypergraph is any other input
CanonOther ==
    /\ pc = "canon"
    /\ \E es \in EdgeLists : H2' = Hypergraph(es)
    /\ pc' = "paired"
    /\ UNCHANGED << H, k, G, genVars, emitted, countVars, sigma, canon >>

\* canonical_form_hypergraph on both
Canonicalize ==
    /\ pc \in {"relabelled", "paired"}
    /\ canon' = << canonical_form_hypergraph(H), canonical_form_hypergraph(H2) >>
    /\ pc' = IF pc = "relabelled" THEN "relabelled_done" ELSE "paired_done"
    /\ UNCHANGED << H, k, G, genVars, emitted, countVars, H2, sigma >>

NextCanon == CanonRelabel \/ CanonOther \/ Canonicalize

SpecCanon == InitCanon /\ [][NextCanon]_vars

\* ------------------------------------------------------------------ claims
\* Brute force over a graph: the vertices of S reachable from R inside S
RECURSIVE GraphReach(_, _, _)
GraphReach(Gr, S, R) ==
    LET new == S \cap UNION {Gr[v] : v \in R}
    IN  IF new \subseteq R THEN R ELSE GraphReach(Gr, S, R \cup new)

\* the subgraph induced by S is connected (it has exactly one component)
GraphConnected(Gr, S) ==
    /\ S # {}
    /\ GraphReach(Gr, S, {CHOOSE v \in S : TRUE}) = S

ConnectedKSubsets(Gr, kk) ==
    {S \in SUBSET (DOMAIN Gr) : Cardinality(S) = kk /\ GraphConnected(Gr, S)}

\* Brute force over a hypergraph: the kk-vertex sets whose induced
\* sub-hypergraph is hypergraph-connected
HyperConnectedSets(Hg, kk) ==
    {S \in SUBSET Hg.vertices :
        /\ Cardinality(S) = kk
        /\ is_connected_hypergraph(induced_subhypergraph(Hg, S), CHOOSE v \in S : TRUE)}

\* C1: when baseline_count(H, 3) and efficient_count_order3(H) have both
\* returned, they returned the same mapping
C1_Eff3EqualsBaseline ==
    (pc = "done" /\ k = 3) => effRes.value = baseRes.value

\* C2: when baseline_count(H, 4) and efficient_count_order4(H) have both
\* returned, they returned the same mapping
C2_Eff4EqualsBaseline ==
    (pc = "done" /\ k = 4) => effRes.value = baseRes.value

\* C3: the enumerator never emits a vertex set twice in one run
C3_NoDuplicateEmission ==
    \A i, j \in 1..Len(emitted) : emitted[i] = emitted[j] => i = j

\* C4: every emitted set has k vertices and is connected in G, and once the
\* enumerator is exhausted the emitted sets are exactly the connected
\* k-vertex subsets of G
C4_EmittedAreTheConnectedSubsets ==
    /\ \A i \in 1..Len(emitted) :
          Cardinality(emitted[i]) = k /\ GraphConnected(G, emitted[i])
    /\ pc = "esu_done" => Range(emitted) = ConnectedKSubsets(G, k)

\* C4 witness: a finished run on a graph with an emitted 3-set and with a
\* 3-set that is not connected
C4_Witness ==
    /\ pc = "esu_done" /\ k = 3 /\ Len(emitted) > 0
    /\ \E S \in SUBSET (DOMAIN G) : Cardinality(S) = 3 /\ ~GraphConnected(G, S)

\* C5: the counts baseline_count returns sum to the number of distinct
\* hypergraph-connected k-vertex sets of H
C5_CountConservation ==
    baseRes.status = "returned" =>
        SumValues(baseRes.value) = Cardinality(HyperConnectedSets(H, k))

\* C6: for H made of one hyperedge with exactly k vertices, baseline_count
\* returns the single entry canonical_form_hypergraph(H) -> 1
C6_SingleHyperedge ==
    (baseRes.status = "returned" /\ Len(H.edges) = 1 /\ Cardinality(H.edges[1]) = k)
        => baseRes.value = (canonical_form_hypergraph(H) :> 1)

\* how often e occurs in the list s
RECURSIVE CountIn(_, _)
CountIn(s, e) ==
    IF s = << >> THEN 0
    ELSE (IF Head(s) = e THEN 1 ELSE 0) + CountIn(Tail(s), e)

SameMultiset(s, t) ==
    /\ Len(s) = Len(t)
    /\ \A e \in Range(s) \cup Range(t) : CountIn(s, e) = CountIn(t, e)

\* some vertex bijection maps the multiset of hyperedges of A onto that of B
Isomorphic(A, B) ==
    \E f \in Bijections(A.vertices, B.vertices) :
        SameMultiset(relabel(A, f).edges, B.edges)

\* C7: a relabeled hypergraph has the canonical form of the original, and two
\* hypergraphs with the same number of vertices have equal canonical forms
\* exactly when they are isomorphic
C7_CanonicalFormIsCompleteInvariant ==
    /\ pc = "relabelled_done" => canon[1] = canon[2]
    /\ (pc \in {"relabelled_done", "paired_done"}
          /\ Cardinality(H.vertices) = Cardinality(H2.vertices))
        => ((canon[1] = canon[2]) <=> Isomorphic(H, H2))

\* C7 witness: two different edge lists on 4 vertices, isomorphic, canonicalized
C7_Witness ==
    /\ pc = "paired_done"
    /\ Cardinality(H.vertices) = 4 /\ Len(H.edges) = 2 /\ Len(H2.edges) = 2
    /\ H.edges # H2.edges /\ H.edges[1] # H2.edges[2]
    /\ canon[1] = canon[2]

\* the positions of a call of baseline_count that passed the validation
BaselinePcs == {"base", "base_done"}
AfterBaselinePcs == {"eff3_direct", "eff3_esu", "eff4_direct", "eff4_union",
                     "eff4_esu", "done"}

C8_State ==
    /\ pc = "raised" =>
          /\ k \notin {3, 4}
          /\ baseRes = Raised("ValueError")
          /\ G = << >> /\ M = EmptyMap /\ seen = 0
          /\ vi = 1 /\ stack = << >> /\ yielded = << >>
    /\ pc \in BaselinePcs \cup AfterBaselinePcs => k \in {3, 4}
    /\ pc \in BaselinePcs => baseRes.status = (IF pc = "base" THEN "none" ELSE "returned")
    /\ pc \in AfterBaselinePcs => baseRes.status = "returned"
    /\ pc = "base_done" =>
          /\ baseRes.value = M
          /\ stack = << >> /\ yielded = << >> /\ vi > Len(SortedVertices(G))

\* the stack a is further on in the enumeration than b: it is b with frames
\* returned, or at the first frame that differs it has popped more of ext_list
RECURSIVE StackLess(_, _)
StackLess(a, b) ==
    IF a = << >> THEN b # << >>
    ELSE IF b = << >> THEN FALSE
    ELSE IF Head(a) = Head(b) THEN StackLess(Tail(a), Tail(b))
    ELSE /\ Head(a).subgraph = Head(b).subgraph
         /\ Head(a).ext_list \subseteq Head(b).ext_list
         /\ Head(a).ext_list # Head(b).ext_list

\* a step inside the call moves on in a well-founded order: the outer loop
\* advances, or the stack does, or the yielded set is consumed
C8_Progress ==
    (pc = "base" /\ pc' = "base") =>
        \/ vi' > vi
        \/ vi' = vi /\ StackLess(stack', stack)
        \/ vi' = vi /\ stack' = stack /\ yielded # << >> /\ yielded' = << >>

C8_Step ==
    /\ pc' = "raised" => UNCHANGED << H, G, M, seen, genVars >>
    /\ pc \in BaselinePcs => H' = H
    /\ pc = "base" => pc' \in {"base", "base_done"}
    /\ C8_Progress

\* C8: a call with k outside {3,4} raises ValueError with no projection built,
\* nothing enumerated or counted and H as it was; a call with k in {3,4} does
\* not raise, leaves H as it was, moves on in a well-founded order with every
\* step until it returns (so it cannot run forever), and what it returns is
\* the mapping it holds when the enumeration is exhausted
C8_ValidationFirst ==
    /\ []C8_State
    /\ [][C8_Step]_vars

\* C8 witness: a call on a hypergraph with edges has raised
C8_Witness == pc = "raised" /\ k = 5 /\ Len(H.edges) = 2

\* C9: in the direct phase a hyperedge whose vertex set is already visited
\* leaves the counts as they are, and the returned counts sum to at most the
\* number of k-vertex sets
C9_FirstOccurrenceWins ==
    /\ [][(pc \in {"eff3_direct", "eff4_direct"} /\ ei <= Len(H.edges)
            /\ H.edges[ei] \in visited) => M' = M]_vars
    /\ [](pc = "done" =>
            SumValues(effRes.value)
                <= Cardinality({S \in SUBSET H.vertices : Cardinality(S) = k}))

AllSingletons(Hg) == \A i \in 1..Len(Hg.edges) : Cardinality(Hg.edges[i]) = 1

\* C10: for a hypergraph without a hyperedge of size >= 2 (the empty one
\* included) no count is ever made: the mappings held and returned by
\* baseline_count and efficient_count_order3/4 are empty
C10_DegenerateIsEmpty ==
    AllSingletons(H) =>
        /\ M = EmptyMap
        /\ baseRes.value = EmptyMap
        /\ effRes.value = EmptyMap
        /\ pc \notin {"raised", "build", "ready"} => \A v \in DOMAIN G : G[v] = {}

\* C10 witness: both calls have returned on two singleton hyperedges
C10_Witness ==
    /\ pc = "done" /\ k = 3
    /\ Len(H.edges) = 2 /\ AllSingletons(H)
    /\ baseRes = Returned(EmptyMap) /\ effRes = Returned(EmptyMap)

\* no stored hyperedge is empty and the vertex set is the union of the
\* stored hyperedges
WellFormed(Hg) ==
    /\ \A i \in 1..Len(Hg.edges) : Hg.edges[i] # {}
    /\ Hg.vertices = UNION {Hg.edges[i] : i \in 1..Len(Hg.edges)}

\* the positions of the hyperedges of es that meet Vset, ascending
KeptIdx(es, Vset) == SortedSeq({i \in 1..Len(es) : es[i] \cap Vset # {}})

\* the result for Vset is well-formed and stores the non-empty intersections
\* e & Vset, one per hyperedge that meets Vset, in the order of Hg.edges
InducedAsSpecified(Hg, Vset) ==
    LET sub == induced_subhypergraph(Hg, Vset)
        idx == KeptIdx(Hg.edges, Vset)
    IN  /\ WellFormed(sub)
        /\ Len(sub.edges) = Len(idx)
        /\ \A j \in 1..Len(idx) : sub.edges[j] = Hg.edges[idx[j]] \cap Vset

C11_State ==
    /\ WellFormed(H)
    /\ add_edge(H, {}) = H
    /\ \A e \in (SUBSET Vertices) \ {{}} :
          /\ add_edge(H, e).edges = Append(H.edges, e)
          /\ add_edge(H, e).vertices = H.vertices \cup e
    /\ \A Vset \in SUBSET (H.vertices \cup Vertices) : InducedAsSpecified(H, Vset)

C11_Step ==
    /\ (pc = "build" /\ pc' = "build" /\ H' # H) =>
          \E e \in (SUBSET Vertices) \ {{}} :
              /\ H'.edges = Append(H.edges, e)
              /\ H'.vertices = H.vertices \cup e
    /\ pc # "build" => H' = H

\* C11: every hypergraph built by add_edge calls, and every result of
\* induced_subhypergraph on it, has no empty hyperedge and has the union of
\* its hyperedges as vertex set; add_edge of an empty edge changes nothing and
\* add_edge of any other edge appends exactly that one entry, also when an
\* equal hyperedge is stored; induced_subhypergraph stores exactly the
\* non-empty intersections in the original order, and the calls that use it
\* leave H as it was
C11_WellFormedHypergraph ==
    /\ []C11_State
    /\ [][C11_Step]_vars

\* C11 witness: the same hyperedge is stored twice and baseline_count has
\* built a candidate that trims both
C11_Witness ==
    /\ pc = "base" /\ seen >= 1 /\ yielded # << >>
    /\ Len(H.edges) = 2 /\ H.edges[1] = H.edges[2]
    /\ induced_subhypergraph(H, yielded[1]).vertices # H.vertices

\* The reference run: rec pops the largest vertex of ext_list and the
\* connectivity check starts at the smallest vertex.  It is one of the runs
\* the iteration order of a set allows.
RECURSIVE RefRec(_, _, _, _, _)
\* the sets rec(subgraph, ext, start) yields in the reference run, in order
RefRec(Gr, kk, subgraph, ext, start) ==
    IF Len(subgraph) = kk THEN << Range(subgraph) >>
    ELSE IF ext = {} THEN << >>
    ELSE LET w == CHOOSE x \in ext : \A y \in ext : y <= x
             rest == ext \ {w}
             new_sub == Append(subgraph, w)
         IN  RefRec(Gr, kk, new_sub, NewExt(Gr, rest, new_sub, w, start), start)
                 \o RefRec(Gr, kk, subgraph, rest, start)

RECURSIVE RefFrom(_, _, _)
\* the sets the outer loop yields from position i on
RefFrom(Gr, kk, i) ==
    IF i > Len(SortedVertices(Gr)) THEN << >>
    ELSE LET v == SortedVertices(Gr)[i]
         IN  RefRec(Gr, kk, << v >>, StartExt(Gr, v), v) \o RefFrom(Gr, kk, i + 1)

RefEmitted(Gr, kk) == RefFrom(Gr, kk, 1)

RefStart(Hg) ==
    IF Hg.vertices = {} THEN 0
    ELSE CHOOSE x \in Hg.vertices : \A y \in Hg.vertices : x <= y

RECURSIVE RefCount(_, _, _)
\* the mapping after the loop body ran on every set of the list es
RefCount(Mp, Hg, es) ==
    IF es = << >> THEN Mp
    ELSE RefCount(Counted(Mp, Hg, Head(es),
                          RefStart(induced_subhypergraph(Hg, Head(es)))),
                  Hg, Tail(es))

RefBaseline(Hg, kk) ==
    RefCount(EmptyMap, Hg, RefEmitted(projection_2_section(Hg), kk))

\* C12: whatever order rec pops ext_list in and whatever vertex the
\* connectivity check starts from, baseline_count(H, k) returns the mapping
\* of the reference run and has enumerated as many sets as the reference run:
\* all runs on the same H and k return the same
C12_OrderIndependent ==
    pc = "base_done" =>
        /\ baseRes.value = RefBaseline(H, k)
        /\ seen = Len(RefEmitted(G, k))

\* C12 witness: a returned call on a hypergraph where rec had a choice of
\* what to pop (two later neighbours of the first vertex), where a set was
\* enumerated more than once and where a counted candidate had several
\* hyperedges to search through
C12_Witness ==
    /\ pc = "base_done" /\ k = 4
    /\ Len(H.edges) = 2 /\ H.edges[1] # H.edges[2]
    /\ 1 \in H.vertices /\ Cardinality(StartExt(G, 1)) >= 2
    /\ seen >= 2
    /\ baseRes.value # EmptyMap

\* the enumerator alone: whatever order rec pops ext_list in, the list of
\* emitted sets is a rearrangement of the reference run's list
C12_EmittedMultiset ==
    pc = "esu_done" => SameMultiset(emitted, RefEmitted(G, k))

====
